---- MODULE Spec2Model ----
(***************************************************************************)
(* A model of the command core of simple-redis: the Backend store          *)
(* (src/backend/mod.rs) and the hash / set commands (src/cmd/hmap.rs).     *)
(*                                                                         *)
(* Strings are sequences of bytes (numbers 0..255), so that ordering and   *)
(* UTF-8 decoding are computed, not assumed.  A DashMap is a function      *)
(* whose DOMAIN is the set of keys present.                                *)
(***************************************************************************)
EXTENDS Integers, Sequences, FiniteSets, TLC

VARIABLES map, hmap, last, reply, setLog, hsetLog, written, sadded, found,
          parser, request, parsed,
          tcmd, pc, tacc, tadded, treply, seen, map0, hmap0

\* what the threads of a concurrent run hold (see "Concurrent execution")
threadVars == <<tcmd, pc, tacc, tadded, treply, seen, map0, hmap0>>

vars == <<map, hmap, last, reply, setLog, hsetLog, written, sadded, found,
          parser, request, parsed, threadVars>>

(***************************************************************************)
(* The records of the model.                                               *)
(***************************************************************************)
\* a command: one record shape for all, the unused fields left empty
Cmd(cmd, key, field, fields, value, sort) ==
    [cmd |-> cmd, key |-> key, field |-> field, fields |-> fields,
     value |-> value, sort |-> sort]

\* what an execution gives: the two tables afterwards and the reply
Result(r, m, hm) == [map |-> m, hmap |-> hm, reply |-> r]

\* what Backend::sadd gives: the table afterwards and the count
Added(hm, n) == [hmap |-> hm, added |-> n]

\* Option<T>
None == [some |-> FALSE]

Some(x) == [some |-> TRUE, val |-> x]

\* Result<T, CommandError>
Ok(val) == [val |-> val, ok |-> TRUE, err |-> "none"]

Err(err) == [val |-> <<>>, ok |-> FALSE, err |-> err]

(***************************************************************************)
(* Bounds of the model.                                                    *)
(***************************************************************************)
\* longest list of fields (HMGET) or members (SADD) carried by one command
MaxFields == 2

\* longest request array, the command name included
MaxTokens == 4

\* "k", "m": the keys the commands name
Keys == {<<107>>, <<109>>}

\* "a", "aa", "b": field and member names; in byte order "a" < "aa" < "b"
Fields == {<<97>>, <<97, 97>>, <<98>>}

\* the key and the field of the runs that vary the other one
OneKey == {<<107>>}

OneField == {<<98>>}

(***************************************************************************)
(* RespFrame: the frames the core handles.                                 *)
(***************************************************************************)
RespNull == [t |-> "Null", v |-> <<>>]

BulkString(b) == [t |-> "BulkString", v |-> b]

Integer(n) == [t |-> "Integer", v |-> n]

RespArray(s) == [t |-> "Array", v |-> s]

RESP_OK == [t |-> "SimpleString", v |-> "OK"]

RESP_NIL == RespNull

\* the values the commands store: the Null frame and the bulk string "w"
Values == {RespNull, BulkString(<<119>>)}

(***************************************************************************)
(* DashMap                                                                 *)
(***************************************************************************)
EmptyMap == <<>>

\* DashMap::get
MapGet(m, k) == IF k \in DOMAIN m THEN Some(m[k]) ELSE None

\* DashMap::insert: stores v under k and returns the value it replaced
MapPut(m, k, v) == [x \in (DOMAIN m) \cup {k} |-> IF x = k THEN v ELSE m[x]]

\* an empty value put under k whether k has a value or not
OrDefaultFresh(m, k) == MapPut(m, k, EmptyMap)

\* DashMap::entry(k).or_default(): k's value, created empty when absent
OrDefault(m, k) == IF k \in DOMAIN m THEN m ELSE MapPut(m, k, EmptyMap)

\* the orders in which DashMap::iter may visit the entries of m
IterOrders(m) ==
    {p \in [1..Cardinality(DOMAIN m) -> DOMAIN m] :
        \A i, j \in 1..Cardinality(DOMAIN m) : i # j => p[i] # p[j]}

Range(s) == {s[i] : i \in DOMAIN s}

(***************************************************************************)
(* String ordering: Ord for String compares the bytes lexicographically.   *)
(***************************************************************************)
RECURSIVE CmpFrom(_, _, _)
CmpFrom(a, b, i) ==
    IF i > Len(a) /\ i > Len(b) THEN "Equal"
    ELSE IF i > Len(a) THEN "Less"
    ELSE IF i > Len(b) THEN "Greater"
    ELSE IF a[i] < b[i] THEN "Less"
    ELSE IF a[i] > b[i] THEN "Greater"
    ELSE CmpFrom(a, b, i + 1)

\* a comparison that puts the shorter string first
StrCmpShortLex(a, b) ==
    IF Len(a) < Len(b) THEN "Less"
    ELSE IF Len(a) > Len(b) THEN "Greater"
    ELSE CmpFrom(a, b, 1)

StrCmp(a, b) == CmpFrom(a, b, 1)

(***************************************************************************)
(* Backend                                                                 *)
(***************************************************************************)
\* Backend::get
get(m, key) == MapGet(m, key)

\* a set that keeps the value a key already has
setKeepFirst(m, key, value) ==
    IF key \in DOMAIN m THEN m ELSE MapPut(m, key, value)

\* Backend::set
set(m, key, value) == MapPut(m, key, value)

\* Backend::hget
hget(hm, key, field) ==
    IF key \in DOMAIN hm THEN MapGet(hm[key], field) ELSE None

\* an hset that keeps the value a field already has
hsetKeepFirst(hm, key, field, value) ==
    LET h == OrDefault(hm, key)
    IN  IF field \in DOMAIN h[key] THEN h
        ELSE MapPut(h, key, MapPut(h[key], field, value))

\* Backend::hset
hset(hm, key, field, value) ==
    LET h == OrDefault(hm, key)
    IN  MapPut(h, key, MapPut(h[key], field, value))

\* Backend::hgetall
hgetall(hm, key) == MapGet(hm, key)

\* a loop that counts every member listed, new or not
RECURSIVE SaddLoopCountAll(_, _, _, _)
SaddLoopCountAll(s, members, i, added) ==
    IF i > Len(members) THEN Added(s, added)
    ELSE SaddLoopCountAll(MapPut(s, members[i], RESP_NIL), members, i + 1,
                          added + 1)

\* a loop that leaves a member the set already holds as it is
RECURSIVE SaddLoopKeepExisting(_, _, _, _)
SaddLoopKeepExisting(s, members, i, added) ==
    IF i > Len(members) THEN Added(s, added)
    ELSE IF members[i] \in DOMAIN s
         THEN SaddLoopKeepExisting(s, members, i + 1, added)
         ELSE SaddLoopKeepExisting(MapPut(s, members[i], RESP_NIL), members,
                                   i + 1, added + 1)

\* the loop of Backend::sadd over members[i..], on the inner map s
RECURSIVE SaddLoop(_, _, _, _)
SaddLoop(s, members, i, added) ==
    IF i > Len(members) THEN Added(s, added)
    ELSE SaddLoop(MapPut(s, members[i], RESP_NIL), members, i + 1,
                  IF members[i] \in DOMAIN s THEN added ELSE added + 1)

\* a sadd that builds the set anew from the members listed
saddFresh(hm, key, members) ==
    LET r == SaddLoop(EmptyMap, members, 1, 0)
    IN  Added(MapPut(hm, key, r.hmap), r.added)

\* Backend::sadd
sadd(hm, key, members) ==
    LET h == OrDefault(hm, key)
        r == SaddLoop(h[key], members, 1, 0)
    IN  Added(MapPut(h, key, r.hmap), r.added)

\* Backend::sismember
sismember(hm, key, member) ==
    key \in DOMAIN hm /\ member \in DOMAIN hm[key]

(***************************************************************************)
(* Vec::sort_by(|a, b| a.0.cmp(&b.0)): a stable sort of (field, value)     *)
(* pairs by field name.                                                    *)
(***************************************************************************)
\* x placed behind the last pair of the sorted s that is not greater than x
RECURSIVE InsertPair(_, _)
InsertPair(s, x) ==
    IF s = <<>> THEN <<x>>
    ELSE IF StrCmp(s[Len(s)][1], x[1]) = "Greater"
         THEN Append(InsertPair(SubSeq(s, 1, Len(s) - 1), x), s[Len(s)])
         ELSE Append(s, x)

RECURSIVE SortFrom(_, _, _)
SortFrom(data, i, acc) ==
    IF i > Len(data) THEN acc
    ELSE SortFrom(data, i + 1, InsertPair(acc, data[i]))

SortByField(data) == SortFrom(data, 1, <<>>)

\* flat_map(|(k, v)| vec![BulkString::from(k).into(), v])
RECURSIVE FlatFrom(_, _)
FlatFrom(data, i) ==
    IF i > Len(data) THEN <<>>
    ELSE <<BulkString(data[i][1]), data[i][2]>> \o FlatFrom(data, i + 1)

Flatten(data) == FlatFrom(data, 1)

(***************************************************************************)
(* Commands: one record shape for all, the unused fields left empty.       *)
(***************************************************************************)
Get(key) == Cmd("GET", key, <<>>, <<>>, RespNull, FALSE)

Set(key, value) == Cmd("SET", key, <<>>, <<>>, value, FALSE)

HGet(key, field) == Cmd("HGET", key, field, <<>>, RespNull, FALSE)

HGetAll(key, sort) == Cmd("HGETALL", key, <<>>, <<>>, RespNull, sort)

HMGet(key, fields) == Cmd("HMGET", key, <<>>, fields, RespNull, FALSE)

HSet(key, field, value) == Cmd("HSET", key, field, <<>>, value, FALSE)

\* members are carried in the fields slot
SAdd(key, members) == Cmd("SADD", key, <<>>, members, RespNull, FALSE)

\* member is carried in the field slot
SIsMember(key, member) == Cmd("SISMEMBER", key, member, <<>>, RespNull, FALSE)

NoCmd == Cmd("none", <<>>, <<>>, <<>>, RespNull, FALSE)

(***************************************************************************)
(* CommandExecutor::execute: the reply, and the two tables afterwards.     *)
(***************************************************************************)
GetExecute(c, m, hm) ==
    LET r == get(m, c.key)
    IN  Result(IF r.some THEN r.val ELSE RespNull, m, hm)

SetExecute(c, m, hm) == Result(RESP_OK, set(m, c.key, c.value), hm)

HGetExecute(c, m, hm) ==
    LET r == hget(hm, c.key, c.field)
    IN  Result(IF r.some THEN r.val ELSE RespNull, m, hm)

\* an HGETALL that answers Null, as HGET does, when the key has no entry
HGetAllExecuteNullIfAbsent(c, m, hm, ord) ==
    LET h == MapGet(hm, c.key)
    IN  IF h.some
        THEN LET data == [i \in 1..Len(ord) |-> <<ord[i], h.val[ord[i]]>>]
                 sorted == IF c.sort THEN SortByField(data) ELSE data
             IN  Result(RespArray(Flatten(sorted)), m, hm)
        ELSE Result(RespNull, m, hm)

\* an HGETALL that reaches the entry through entry(key).or_default()
HGetAllExecuteOrDefault(c, m, hm, ord) ==
    LET h == OrDefault(hm, c.key)
        data == [i \in 1..Len(ord) |-> <<ord[i], h[c.key][ord[i]]>>]
        sorted == IF c.sort THEN SortByField(data) ELSE data
    IN  Result(RespArray(Flatten(sorted)), m, h)

\* ord: the order in which the iteration meets the fields of the entry
HGetAllExecute(c, m, hm, ord) ==
    LET h == MapGet(hm, c.key)
    IN  IF h.some
        THEN LET data == [i \in 1..Len(ord) |-> <<ord[i], h.val[ord[i]]>>]
                 sorted == IF c.sort THEN SortByField(data) ELSE data
             IN  Result(RespArray(Flatten(sorted)), m, hm)
        ELSE Result(RespArray(<<>>), m, hm)

\* the values of the listed fields that are present, in request order
RECURSIVE FoundFrom(_, _, _)
FoundFrom(h, fields, i) ==
    IF i > Len(fields) THEN <<>>
    ELSE (IF fields[i] \in DOMAIN h THEN <<h[fields[i]]>> ELSE <<>>)
         \o FoundFrom(h, fields, i + 1)

\* an HMGET that pushes nothing for a missing field
HMGetExecuteSkipMissing(c, m, hm) ==
    LET h == MapGet(hm, c.key)
    IN  IF h.some
        THEN Result(RespArray(FoundFrom(h.val, c.fields, 1)), m, hm)
        ELSE Result(RespArray(<<>>), m, hm)

HMGetExecute(c, m, hm) ==
    LET h == MapGet(hm, c.key)
    IN  IF h.some
        THEN Result(RespArray([i \in 1..Len(c.fields) |->
                        IF c.fields[i] \in DOMAIN h.val
                        THEN h.val[c.fields[i]] ELSE RespNull]), m, hm)
        ELSE Result(RespArray(<<>>), m, hm)

\* an HSET that also stores the value in the string table
HSetExecuteOneTable(c, m, hm) ==
    Result(RESP_OK, MapPut(m, c.key, c.value),
           hset(hm, c.key, c.field, c.value))

HSetExecute(c, m, hm) == Result(RESP_OK, m, hset(hm, c.key, c.field, c.value))

SAddExecute(c, m, hm) ==
    LET r == sadd(hm, c.key, c.fields)
    IN  Result(Integer(r.added), m, r.hmap)

SIsMemberExecute(c, m, hm) ==
    Result(Integer(IF sismember(hm, c.key, c.field) THEN 1 ELSE 0), m, hm)

Execute(c, m, hm, ord) ==
    CASE c.cmd = "GET" -> GetExecute(c, m, hm)
      [] c.cmd = "SET" -> SetExecute(c, m, hm)
      [] c.cmd = "HGET" -> HGetExecute(c, m, hm)
      [] c.cmd = "HGETALL" -> HGetAllExecute(c, m, hm, ord)
      [] c.cmd = "HMGET" -> HMGetExecute(c, m, hm)
      [] c.cmd = "HSET" -> HSetExecute(c, m, hm)
      [] c.cmd = "SADD" -> SAddExecute(c, m, hm)
      [] c.cmd = "SISMEMBER" -> SIsMemberExecute(c, m, hm)

\* the iteration orders the execution of c may meet on the table hm
OrdersIn(hm, c) ==
    IF c.cmd = "HGETALL" /\ c.key \in DOMAIN hm
    THEN IterOrders(hm[c.key]) ELSE {<<>>}

Orders(c) == OrdersIn(hmap, c)

\* the replies c may get on the tables m and hm
Replies(c, m, hm) == {Execute(c, m, hm, ord).reply : ord \in OrdersIn(hm, c)}

(***************************************************************************)
(* History of the run, kept beside the store to state the claims:          *)
(*   setLog   key -> the value of the last SET of the key                  *)
(*   hsetLog  (key, field) -> the value of the last HSET of the pair,      *)
(*            while no later SADD has written the pair                     *)
(*   written  the (key, field) pairs an HSET or a SADD has written         *)
(*   sadded   the (key, member) pairs a SADD has listed                    *)
(*   found    the entry the last command found under its key, when that    *)
(*            command is a SADD                                            *)
(***************************************************************************)
Pairs(key, members) == {<<key, members[i]>> : i \in DOMAIN members}

Without(f, S) == [x \in (DOMAIN f) \ S |-> f[x]]

\* one command, executed on the store
Step(c) ==
    \E ord \in Orders(c) :
        LET r == Execute(c, map, hmap, ord)
        IN  /\ map' = r.map
            /\ hmap' = r.hmap
            /\ reply' = r.reply
            /\ last' = c
            /\ setLog' = IF c.cmd = "SET"
                         THEN MapPut(setLog, c.key, c.value) ELSE setLog
            /\ hsetLog' = CASE c.cmd = "HSET" ->
                                 MapPut(hsetLog, <<c.key, c.field>>, c.value)
                            [] c.cmd = "SADD" ->
                                 Without(hsetLog, Pairs(c.key, c.fields))
                            [] OTHER -> hsetLog
            /\ written' = CASE c.cmd = "HSET" ->
                                 written \cup {<<c.key, c.field>>}
                            [] c.cmd = "SADD" ->
                                 written \cup Pairs(c.key, c.fields)
                            [] OTHER -> written
            /\ sadded' = IF c.cmd = "SADD"
                         THEN sadded \cup Pairs(c.key, c.fields) ELSE sadded
            /\ found' = IF c.cmd = "SADD" THEN MapGet(hmap, c.key) ELSE None
            /\ UNCHANGED threadVars

\* the lists of 0..MaxFields names out of F
Lists(F) == UNION {[1..n -> F] : n \in 0..MaxFields}

\* no request is touched by a command the caller builds itself, as the
\* tests do
NoParse == UNCHANGED <<parser, request, parsed>>

DoGet(K) == \E k \in K : Step(Get(k)) /\ NoParse

DoSet(K) == \E k \in K, v \in Values : Step(Set(k, v)) /\ NoParse

DoHGet(K, F) == \E k \in K, f \in F : Step(HGet(k, f)) /\ NoParse

DoHGetAll(K) == \E k \in K, s \in BOOLEAN : Step(HGetAll(k, s)) /\ NoParse

DoHMGet(K, F) == \E k \in K, fs \in Lists(F) : Step(HMGet(k, fs)) /\ NoParse

DoHSet(K, F) == \E k \in K, f \in F, v \in Values : Step(HSet(k, f, v)) /\ NoParse

DoSAdd(K, F) == \E k \in K, ms \in Lists(F) : Step(SAdd(k, ms)) /\ NoParse

DoSIsMember(K, F) == \E k \in K, f \in F : Step(SIsMember(k, f)) /\ NoParse

\* "t1", "t2", "t3": the threads that share the backend
Threads == {"t1", "t2", "t3"}

\* no thread runs a command
NoThreads ==
    /\ tcmd = [t \in Threads |-> NoCmd]
    /\ pc = [t \in Threads |-> "done"]
    /\ tacc = [t \in Threads |-> <<>>]
    /\ tadded = [t \in Threads |-> 0]
    /\ treply = [t \in Threads |-> RespNull]
    /\ seen = [t \in Threads |-> {}]
    /\ map0 = EmptyMap
    /\ hmap0 = EmptyMap

\* nothing executed yet
InitHistory ==
    /\ last = NoCmd
    /\ reply = RespNull
    /\ setLog = EmptyMap
    /\ hsetLog = EmptyMap
    /\ written = {}
    /\ sadded = {}
    /\ found = None

\* Backend::new, and nothing executed yet
InitStore ==
    /\ map = EmptyMap
    /\ hmap = EmptyMap
    /\ InitHistory
    /\ NoThreads

Init ==
    /\ InitStore
    /\ parser = "none"
    /\ request = <<>>
    /\ parsed = "idle"

(***************************************************************************)
(* Spec: every command, on two keys and one field name, so that both       *)
(* tables fill.                                                            *)
(***************************************************************************)
Next ==
    \/ DoGet(Keys)
    \/ DoSet(Keys)
    \/ DoHGet(Keys, OneField)
    \/ DoHGetAll(Keys)
    \/ DoHMGet(Keys, OneField)
    \/ DoHSet(Keys, OneField)
    \/ DoSAdd(Keys, OneField)
    \/ DoSIsMember(Keys, OneField)

Spec == Init /\ [][Next]_vars

(***************************************************************************)
(* SpecHash: the hash and set commands, on one key and three field names.  *)
(***************************************************************************)
NextHash ==
    \/ DoHGet(OneKey, Fields)
    \/ DoHGetAll(OneKey)
    \/ DoHMGet(OneKey, Fields)
    \/ DoHSet(OneKey, Fields)
    \/ DoSAdd(OneKey, Fields)
    \/ DoSIsMember(OneKey, Fields)

SpecHash == Init /\ [][NextHash]_vars

(***************************************************************************)
(* Parsing a request (TryFrom<RespArray>).                                 *)
(***************************************************************************)
\* the command names, as the bytes of the first token
NameOf(p) ==
    CASE p = "hget" -> <<104, 103, 101, 116>>
      [] p = "hgetall" -> <<104, 103, 101, 116, 97, 108, 108>>
      [] p = "hmget" -> <<104, 109, 103, 101, 116>>
      [] p = "sadd" -> <<115, 97, 100, 100>>
      [] p = "hset" -> <<104, 115, 101, 116>>
      [] p = "sismember" -> <<115, 105, 115, 109, 101, 109, 98, 101, 114>>

Parsers == {"hget", "hgetall", "hmget", "sadd", "hset", "sismember"}

ErrorKinds == {"InvalidArgument", "Utf8Error"}

\* the bytes b[i..] are well-formed UTF-8
RECURSIVE Utf8From(_, _)
Utf8From(b, i) ==
    IF i > Len(b) THEN TRUE
    ELSE LET x == b[i]
             n == IF x < 128 THEN 1
                  ELSE IF x >= 194 /\ x <= 223 THEN 2
                  ELSE IF x >= 224 /\ x <= 239 THEN 3
                  ELSE IF x >= 240 /\ x <= 244 THEN 4
                  ELSE 0
             lo == IF x = 224 THEN 160 ELSE IF x = 240 THEN 144 ELSE 128
             hi == IF x = 237 THEN 159 ELSE IF x = 244 THEN 143 ELSE 191
         IN  /\ n > 0
             /\ i + n - 1 <= Len(b)
             /\ n >= 2 => (b[i + 1] >= lo /\ b[i + 1] <= hi)
             /\ \A j \in (i + 2)..(i + n - 1) : b[j] >= 128 /\ b[j] <= 191
             /\ Utf8From(b, i + n)

\* String::from_utf8: the same bytes as a String, or the decoding failure
from_utf8(b) == IF Utf8From(b, 1) THEN Ok(b) ELSE Err("Utf8Error")

\* validate_command(value, &[name], n_args)
validate_command(value, name, n_args) ==
    IF Len(value) # n_args + 1 THEN Err("InvalidArgument")
    ELSE IF value[1] # BulkString(name) THEN Err("InvalidArgument")
    ELSE Ok(<<>>)

\* extract_args(value, start)
extract_args(value, start) == SubSeq(value, start + 1, Len(value))

\* Iterator::next on the i-th call
NextArg(args, i) == IF i <= Len(args) THEN Some(args[i]) ELSE None

IsBulk(o) == o.some /\ o.val.t = "BulkString"

\* HGet::try_from
HGetTryFrom(value) ==
    IF ~validate_command(value, NameOf("hget"), 2).ok
    THEN Err("InvalidArgument")
    ELSE LET args == extract_args(value, 1)
             a1 == NextArg(args, 1)
             a2 == NextArg(args, 2)
         IN  IF IsBulk(a1) /\ IsBulk(a2)
             THEN LET key == from_utf8(a1.val.v)
                      field == from_utf8(a2.val.v)
                  IN  IF ~key.ok THEN Err(key.err)
                      ELSE IF ~field.ok THEN Err(field.err)
                      ELSE Ok(HGet(key.val, field.val))
             ELSE Err("InvalidArgument")

\* HGetAll::try_from
HGetAllTryFrom(value) ==
    IF ~validate_command(value, NameOf("hgetall"), 1).ok
    THEN Err("InvalidArgument")
    ELSE LET args == extract_args(value, 1)
             a1 == NextArg(args, 1)
         IN  IF IsBulk(a1)
             THEN LET key == from_utf8(a1.val.v)
                  IN  IF ~key.ok THEN Err(key.err)
                      ELSE Ok(HGetAll(key.val, FALSE))
             ELSE Err("InvalidArgument")

\* a collection that puts each decoded name in front of the earlier ones
RECURSIVE CollectStringsReversed(_, _, _)
CollectStringsReversed(args, i, acc) ==
    IF i > Len(args) THEN Ok(acc)
    ELSE IF args[i].t = "BulkString"
         THEN LET f == from_utf8(args[i].v)
              IN  IF f.ok
                  THEN CollectStringsReversed(args, i + 1, <<f.val>> \o acc)
                  ELSE Err(f.err)
         ELSE Err("InvalidArgument")

\* args[i..] decoded one by one into acc, up to the first failure
\* (map(..).collect::<Result<Vec<String>, CommandError>>())
RECURSIVE CollectStrings(_, _, _)
CollectStrings(args, i, acc) ==
    IF i > Len(args) THEN Ok(acc)
    ELSE IF args[i].t = "BulkString"
         THEN LET f == from_utf8(args[i].v)
              IN  IF f.ok THEN CollectStrings(args, i + 1, Append(acc, f.val))
                  ELSE Err(f.err)
         ELSE Err("InvalidArgument")

\* an HMGet::try_from that reports a key that is not UTF-8 as an invalid key
HMGetTryFromInvalidKey(value) ==
    LET args == extract_args(value, 0)
    IN  IF Len(args) < 3 THEN Err("InvalidArgument")
        ELSE IF args[1] # BulkString(NameOf("hmget")) THEN Err("InvalidArgument")
        ELSE IF args[2].t = "BulkString"
             THEN LET fields == CollectStrings(args, 3, <<>>)
                      key == from_utf8(args[2].v)
                  IN  IF ~fields.ok THEN Err(fields.err)
                      ELSE IF ~key.ok THEN Err("InvalidArgument")
                      ELSE Ok(HMGet(key.val, fields.val))
             ELSE Err("InvalidArgument")

\* HMGet::try_from
HMGetTryFrom(value) ==
    LET args == extract_args(value, 0)
    IN  IF Len(args) < 3 THEN Err("InvalidArgument")
        ELSE IF args[1] # BulkString(NameOf("hmget")) THEN Err("InvalidArgument")
        ELSE IF args[2].t = "BulkString"
             THEN LET fields == CollectStrings(args, 3, <<>>)
                      key == from_utf8(args[2].v)
                  IN  IF ~fields.ok THEN Err(fields.err)
                      ELSE IF ~key.ok THEN Err(key.err)
                      ELSE Ok(HMGet(key.val, fields.val))
             ELSE Err("InvalidArgument")

\* a SAdd::try_from without the check of the number of tokens
SAddTryFromAnyLength(value) ==
    LET args == extract_args(value, 0)
    IN  IF Len(args) < 2 THEN Err("InvalidArgument")
        ELSE IF args[1] # BulkString(NameOf("sadd")) THEN Err("InvalidArgument")
        ELSE IF args[2].t = "BulkString"
             THEN LET members == CollectStrings(args, 3, <<>>)
                      key == from_utf8(args[2].v)
                  IN  IF ~members.ok THEN Err(members.err)
                      ELSE IF ~key.ok THEN Err(key.err)
                      ELSE Ok(SAdd(key.val, members.val))
             ELSE Err("InvalidArgument")

\* SAdd::try_from
SAddTryFrom(value) ==
    LET args == extract_args(value, 0)
    IN  IF Len(args) < 3 THEN Err("InvalidArgument")
        ELSE IF args[1] # BulkString(NameOf("sadd")) THEN Err("InvalidArgument")
        ELSE IF args[2].t = "BulkString"
             THEN LET members == CollectStrings(args, 3, <<>>)
                      key == from_utf8(args[2].v)
                  IN  IF ~members.ok THEN Err(members.err)
                      ELSE IF ~key.ok THEN Err(key.err)
                      ELSE Ok(SAdd(key.val, members.val))
             ELSE Err("InvalidArgument")

\* an HSet::try_from that takes a bulk string only as the value
HSetTryFromBulkValue(value) ==
    IF ~validate_command(value, NameOf("hset"), 3).ok
    THEN Err("InvalidArgument")
    ELSE LET args == extract_args(value, 1)
             a1 == NextArg(args, 1)
             a2 == NextArg(args, 2)
             a3 == NextArg(args, 3)
         IN  IF IsBulk(a1) /\ IsBulk(a2) /\ IsBulk(a3)
             THEN LET key == from_utf8(a1.val.v)
                      field == from_utf8(a2.val.v)
                  IN  IF ~key.ok THEN Err(key.err)
                      ELSE IF ~field.ok THEN Err(field.err)
                      ELSE Ok(HSet(key.val, field.val, a3.val))
             ELSE Err("InvalidArgument")

\* HSet::try_from
HSetTryFrom(value) ==
    IF ~validate_command(value, NameOf("hset"), 3).ok
    THEN Err("InvalidArgument")
    ELSE LET args == extract_args(value, 1)
             a1 == NextArg(args, 1)
             a2 == NextArg(args, 2)
             a3 == NextArg(args, 3)
         IN  IF IsBulk(a1) /\ IsBulk(a2) /\ a3.some
             THEN LET key == from_utf8(a1.val.v)
                      field == from_utf8(a2.val.v)
                  IN  IF ~key.ok THEN Err(key.err)
                      ELSE IF ~field.ok THEN Err(field.err)
                      ELSE Ok(HSet(key.val, field.val, a3.val))
             ELSE Err("InvalidArgument")

\* SIsMember::try_from
SIsMemberTryFrom(value) ==
    IF ~validate_command(value, NameOf("sismember"), 2).ok
    THEN Err("InvalidArgument")
    ELSE LET args == extract_args(value, 1)
             a1 == NextArg(args, 1)
             a2 == NextArg(args, 2)
         IN  IF IsBulk(a1) /\ IsBulk(a2)
             THEN LET key == from_utf8(a1.val.v)
                      member == from_utf8(a2.val.v)
                  IN  IF ~key.ok THEN Err(key.err)
                      ELSE IF ~member.ok THEN Err(member.err)
                      ELSE Ok(SIsMember(key.val, member.val))
             ELSE Err("InvalidArgument")

\* the request handed to the parser p
TryFrom(p, value) ==
    CASE p = "hget" -> HGetTryFrom(value)
      [] p = "hgetall" -> HGetAllTryFrom(value)
      [] p = "hmget" -> HMGetTryFrom(value)
      [] p = "sadd" -> SAddTryFrom(value)
      [] p = "hset" -> HSetTryFrom(value)
      [] p = "sismember" -> SIsMemberTryFrom(value)

(***************************************************************************)
(* SpecParse: one request in flight, parsed by one of the six parsers and  *)
(* executed when the parse succeeds; HSET and SET fill the store around    *)
(* it.                                                                     *)
(***************************************************************************)
\* the tokens behind the first: the texts "k" and "f", a bulk string that is
\* not UTF-8, and a frame that is no bulk string
ArgTokens ==
    {BulkString(<<107>>), BulkString(<<102>>), BulkString(<<255>>), Integer(1)}

\* the first token: the name the parser expects, the name "x", no bulk string
NameTokens(p) == {BulkString(NameOf(p)), BulkString(<<120>>), Integer(1)}

\* the request arrays of 0..MaxTokens tokens
Requests(p) ==
    {<<>>} \cup
    UNION {{<<h>> \o t : h \in NameTokens(p), t \in [1..n -> ArgTokens]} :
              n \in 0..(MaxTokens - 1)}

InitParse ==
    /\ InitStore
    /\ parser \in Parsers
    /\ request \in Requests(parser)
    /\ parsed = "pending"

\* the request does not parse: the failure is handed back
ParseFail ==
    /\ parsed = "pending"
    /\ ~TryFrom(parser, request).ok
    /\ parsed' = TryFrom(parser, request).err
    /\ UNCHANGED <<map, hmap, last, reply, setLog, hsetLog, written, sadded,
                   found, parser, request, threadVars>>

\* the request parses into a command, which is executed
ParseExecute ==
    /\ parsed = "pending"
    /\ TryFrom(parser, request).ok
    /\ Step(TryFrom(parser, request).val)
    /\ parsed' = "ok"
    /\ UNCHANGED <<parser, request>>

NextParse ==
    \/ ParseFail
    \/ ParseExecute
    \/ DoHSet(OneKey, OneKey)
    \/ DoSet(OneKey)

SpecParse == InitParse /\ [][NextParse]_vars

(***************************************************************************)
(* Concurrent execution.  The Backend is an Arc shared by the threads;     *)
(* each thread runs one command.  What a thread does between two accesses  *)
(* to a DashMap is one step:                                               *)
(*   tcmd     thread -> its command                                        *)
(*   pc       thread -> where it is: "start", "insert" (HSET holds the     *)
(*            entry), "loop" (SADD holds the entry), "iter" (HGETALL       *)
(*            holds the entry), "done"                                     *)
(*   tacc     thread -> the pairs an HGETALL has met, the members a SADD   *)
(*            has inserted                                                 *)
(*   tadded   thread -> the variable added of Backend::sadd                *)
(*   treply   thread -> the reply of its command                           *)
(* The guard DashMap::get returns holds the read lock of the key's shard   *)
(* and the guard DashMap::entry returns holds its write lock, each until   *)
(* it is dropped; the locks are taken here per key, the finest sharing     *)
(* the shards allow.  History of the run:                                  *)
(*   seen     thread -> the contents its key's entry has had between the   *)
(*            first and the last step of its HGETALL                       *)
(*   map0, hmap0  the tables before the first thread started               *)
(* The history of the sequential runs (setLog .. found) is not kept here.  *)
(***************************************************************************)
\* "a", "b": the field and member names of the concurrent runs
ConcFields == {<<97>>, <<98>>}

\* the (field, value) pairs of key's entry
Content(hm, key) ==
    IF key \in DOMAIN hm
    THEN {<<f, hm[key][f]>> : f \in DOMAIN hm[key]} ELSE {}

\* an entry whose guards a writer may ignore while others only read it
CanWriteAmongReaders(t, key) ==
    \A u \in Threads \ {t} :
        tcmd[u].key = key => pc[u] \notin {"insert", "loop"}

\* t may take the write lock of key: no other thread holds a guard of it
CanWrite(t, key) ==
    \A u \in Threads \ {t} :
        tcmd[u].key = key => pc[u] \notin {"insert", "loop", "iter"}

\* t may take the read lock of key: no other thread holds entry(key)
CanRead(t, key) ==
    \A u \in Threads \ {t} :
        tcmd[u].key = key => pc[u] \notin {"insert", "loop"}

\* a loop body that counts the member, new or not
SaddIterCountAll(s, member, added) ==
    Added(MapPut(s, member, RESP_NIL), added + 1)

\* the body of the loop of Backend::sadd, for one member
SaddIter(s, member, added) ==
    Added(MapPut(s, member, RESP_NIL),
          IF member \in DOMAIN s THEN added ELSE added + 1)

\* every running HGETALL has seen the entry before and after the step
Observe ==
    seen' = [u \in Threads |->
                IF tcmd[u].cmd = "HGETALL" /\ pc[u] # "done" /\ pc'[u] # "start"
                THEN seen[u] \cup {Content(hmap, tcmd[u].key),
                                   Content(hmap', tcmd[u].key)}
                ELSE seen[u]]

\* what no step of a thread changes
ThreadFrame ==
    UNCHANGED <<last, reply, setLog, hsetLog, written, sadded, found,
                parser, request, parsed, tcmd, map0, hmap0>>

\* Backend::get and the reply of GET, in one access to the string table
TGet(t) ==
    /\ pc[t] = "start"
    /\ tcmd[t].cmd = "GET"
    /\ treply' = [treply EXCEPT ![t] = GetExecute(tcmd[t], map, hmap).reply]
    /\ pc' = [pc EXCEPT ![t] = "done"]
    /\ UNCHANGED <<map, hmap, tacc, tadded>>
    /\ Observe
    /\ ThreadFrame

\* Backend::set, one insert into the string table
TSet(t) ==
    /\ pc[t] = "start"
    /\ tcmd[t].cmd = "SET"
    /\ map' = SetExecute(tcmd[t], map, hmap).map
    /\ treply' = [treply EXCEPT ![t] = SetExecute(tcmd[t], map, hmap).reply]
    /\ pc' = [pc EXCEPT ![t] = "done"]
    /\ UNCHANGED <<hmap, tacc, tadded>>
    /\ Observe
    /\ ThreadFrame

\* Backend::hset, self.hmap.entry(key).or_default()
THSetEntry(t) ==
    /\ pc[t] = "start"
    /\ tcmd[t].cmd = "HSET"
    /\ CanWrite(t, tcmd[t].key)
    /\ hmap' = OrDefault(hmap, tcmd[t].key)
    /\ pc' = [pc EXCEPT ![t] = "insert"]
    /\ UNCHANGED <<map, tacc, tadded, treply>>
    /\ Observe
    /\ ThreadFrame

\* Backend::hset, hmap.insert(field, value); the guard is dropped on return
THSetInsert(t) ==
    /\ pc[t] = "insert"
    /\ LET c == tcmd[t]
       IN  hmap' = MapPut(hmap, c.key, MapPut(hmap[c.key], c.field, c.value))
    /\ treply' = [treply EXCEPT ![t] = RESP_OK]
    /\ pc' = [pc EXCEPT ![t] = "done"]
    /\ UNCHANGED <<map, tacc, tadded>>
    /\ Observe
    /\ ThreadFrame

\* Backend::sadd, self.hmap.entry(key.to_string()).or_default()
TSAddEntry(t) ==
    /\ pc[t] = "start"
    /\ tcmd[t].cmd = "SADD"
    /\ CanWrite(t, tcmd[t].key)
    /\ hmap' = OrDefault(hmap, tcmd[t].key)
    /\ pc' = [pc EXCEPT ![t] = "loop"]
    /\ UNCHANGED <<map, tacc, tadded, treply>>
    /\ Observe
    /\ ThreadFrame

\* Backend::sadd, one turn of the loop over the members
TSAddInsert(t) ==
    /\ pc[t] = "loop"
    /\ Len(tacc[t]) < Len(tcmd[t].fields)
    /\ LET c == tcmd[t]
           member == c.fields[Len(tacc[t]) + 1]
           r == SaddIter(hmap[c.key], member, tadded[t])
       IN  /\ hmap' = MapPut(hmap, c.key, r.hmap)
           /\ tadded' = [tadded EXCEPT ![t] = r.added]
           /\ tacc' = [tacc EXCEPT ![t] = Append(@, member)]
    /\ UNCHANGED <<map, pc, treply>>
    /\ Observe
    /\ ThreadFrame

\* Backend::sadd returns added, and the guard is dropped
TSAddReturn(t) ==
    /\ pc[t] = "loop"
    /\ Len(tacc[t]) = Len(tcmd[t].fields)
    /\ treply' = [treply EXCEPT ![t] = Integer(tadded[t])]
    /\ pc' = [pc EXCEPT ![t] = "done"]
    /\ UNCHANGED <<map, hmap, tacc, tadded>>
    /\ Observe
    /\ ThreadFrame

\* HGetAll::execute, backend.hmap.get(&self.key) finds the entry
THGetAllSome(t) ==
    /\ pc[t] = "start"
    /\ tcmd[t].cmd = "HGETALL"
    /\ CanRead(t, tcmd[t].key)
    /\ tcmd[t].key \in DOMAIN hmap
    /\ pc' = [pc EXCEPT ![t] = "iter"]
    /\ UNCHANGED <<map, hmap, tacc, tadded, treply>>
    /\ Observe
    /\ ThreadFrame

\* HGetAll::execute, backend.hmap.get(&self.key) finds no entry
THGetAllNone(t) ==
    /\ pc[t] = "start"
    /\ tcmd[t].cmd = "HGETALL"
    /\ CanRead(t, tcmd[t].key)
    /\ tcmd[t].key \notin DOMAIN hmap
    /\ treply' = [treply EXCEPT ![t] = RespArray(<<>>)]
    /\ pc' = [pc EXCEPT ![t] = "done"]
    /\ UNCHANGED <<map, hmap, tacc, tadded>>
    /\ Observe
    /\ ThreadFrame

\* HGetAll::execute, the iteration meets one more field of the entry
THGetAllVisit(t) ==
    /\ pc[t] = "iter"
    /\ \E f \in (DOMAIN hmap[tcmd[t].key]) \ {p[1] : p \in Range(tacc[t])} :
           tacc' = [tacc EXCEPT ![t] = Append(@, <<f, hmap[tcmd[t].key][f]>>)]
    /\ UNCHANGED <<map, hmap, pc, tadded, treply>>
    /\ Observe
    /\ ThreadFrame

\* HGetAll::execute, the iteration is over: sort, flatten, reply
THGetAllReturn(t) ==
    /\ pc[t] = "iter"
    /\ (DOMAIN hmap[tcmd[t].key]) \subseteq {p[1] : p \in Range(tacc[t])}
    /\ LET sorted == IF tcmd[t].sort THEN SortByField(tacc[t]) ELSE tacc[t]
       IN  treply' = [treply EXCEPT ![t] = RespArray(Flatten(sorted))]
    /\ pc' = [pc EXCEPT ![t] = "done"]
    /\ UNCHANGED <<map, hmap, tacc, tadded>>
    /\ Observe
    /\ ThreadFrame

\* the threads in R run the commands cmds gives them, the others none,
\* on the tables m and hm
InitThreads(R, cmds, m, hm) ==
    /\ map = m
    /\ hmap = hm
    /\ map0 = m
    /\ hmap0 = hm
    /\ InitHistory
    /\ parser = "none"
    /\ request = <<>>
    /\ parsed = "idle"
    /\ tcmd = [t \in Threads |-> IF t \in R THEN cmds[t] ELSE NoCmd]
    /\ pc = [t \in Threads |-> IF t \in R THEN "start" ELSE "done"]
    /\ tacc = [t \in Threads |-> <<>>]
    /\ tadded = [t \in Threads |-> 0]
    /\ treply = [t \in Threads |-> RespNull]
    /\ seen = [t \in Threads |-> {}]

(***************************************************************************)
(* SpecConc: the threads run one of HSET, SADD and HGETALL each, on the    *)
(* key "k", which has no entry, or the field a, or the fields a and b.     *)
(***************************************************************************)
HashCommands ==
    {HSet(k, f, v) : k \in OneKey, f \in ConcFields, v \in Values}
        \cup {SAdd(k, ms) : k \in OneKey, ms \in Lists(ConcFields)}
        \cup {HGetAll(k, srt) : k \in OneKey, srt \in BOOLEAN}

\* the composite tables a run starts on, written by HSET
HashStores ==
    {EmptyMap,
     hset(EmptyMap, <<107>>, <<97>>, BulkString(<<119>>)),
     hset(hset(EmptyMap, <<107>>, <<97>>, BulkString(<<119>>)),
          <<107>>, <<98>>, BulkString(<<119>>))}

InitConc ==
    \E cmds \in [Threads -> HashCommands], hm \in HashStores :
        InitThreads(Threads, cmds, EmptyMap, hm)

NextConc ==
    \E t \in Threads :
        \/ THSetEntry(t)
        \/ THSetInsert(t)
        \/ TSAddEntry(t)
        \/ TSAddInsert(t)
        \/ TSAddReturn(t)
        \/ THGetAllSome(t)
        \/ THGetAllNone(t)
        \/ THGetAllVisit(t)
        \/ THGetAllReturn(t)

SpecConc == InitConc /\ [][NextConc]_vars

(***************************************************************************)
(* SpecConcString: three threads, each with GET or SET on the key "k",     *)
(* which is unwritten or holds the bulk string "p".                        *)
(***************************************************************************)
StringCommands ==
    {Get(k) : k \in OneKey} \cup {Set(k, v) : k \in OneKey, v \in Values}

\* the string tables a run starts on, written by SET
StringStores == {EmptyMap, set(EmptyMap, <<107>>, BulkString(<<112>>))}

InitConcString ==
    \E cmds \in [Threads -> StringCommands], m \in StringStores :
        InitThreads(Threads, cmds, m, EmptyMap)

NextConcString == \E t \in Threads : TGet(t) \/ TSet(t)

SpecConcString == InitConcString /\ [][NextConcString]_vars

(***************************************************************************)
(* What the history says the store holds.                                  *)
(***************************************************************************)
\* the fields the history has written under key
WrittenUnder(key) == {p[2] : p \in {q \in written : q[1] = key}}

\* the value the history left under (key, field): the last HSET's value, or
\* the Null a later SADD put there
StoredValue(key, field) ==
    IF <<key, field>> \in DOMAIN hsetLog
    THEN hsetLog[<<key, field>>] ELSE RespNull

\* a < b in lexicographic byte order, stated without the comparison loop
LexLess(a, b) ==
    \E i \in 1..Len(b) :
        /\ i <= Len(a) + 1
        /\ \A j \in 1..(i - 1) : a[j] = b[j]
        /\ (i = Len(a) + 1 \/ a[i] < b[i])

\* the positions of the field names in a flattened reply of n frames
FieldPositions(n) == {i \in 1..n : i % 2 = 1}

(***************************************************************************)
(* C1: HMGET replies with an array that has one element per requested      *)
(* field, in every store state; when the key has no composite entry every  *)
(* element is Null.                                                        *)
(***************************************************************************)
C1_HMGetLength ==
    last.cmd = "HMGET" =>
        /\ reply.t = "Array"
        /\ Len(reply.v) = Len(last.fields)
        /\ (last.key \notin DOMAIN hmap =>
                \A i \in 1..Len(reply.v) : reply.v[i] = RespNull)

(***************************************************************************)
(* C2: when the key has a composite entry, the i-th element of the HMGET   *)
(* reply is the value stored under the i-th requested field, or Null when  *)
(* the field is absent; request order and duplicates are kept.             *)
(***************************************************************************)
C2_HMGetPositional ==
    (last.cmd = "HMGET" /\ last.key \in DOMAIN hmap) =>
        /\ reply.t = "Array"
        /\ Len(reply.v) = Len(last.fields)
        /\ \A i \in 1..Len(last.fields) :
               reply.v[i] = IF last.fields[i] \in WrittenUnder(last.key)
                            THEN StoredValue(last.key, last.fields[i])
                            ELSE RespNull

\* HMGET(k, [b, aa]) with aa = "w" stored and b never written
C2_Witness ==
    /\ last = HMGet(<<107>>, <<<<98>>, <<97, 97>>>>)
    /\ <<107>> \in DOMAIN hmap
    /\ <<<<107>>, <<98>>>> \notin written
    /\ reply = RespArray(<<RespNull, BulkString(<<119>>)>>)

(***************************************************************************)
(* C3: HSET replies OK; an HGET of a pair returns the value of the last    *)
(* HSET of the pair when nothing has written the pair since; an HGET of a  *)
(* pair never written returns Null, whether or not the key has an entry.   *)
(***************************************************************************)
C3_HSetHGet ==
    /\ last.cmd = "HSET" => reply = RESP_OK
    /\ last.cmd = "HGET" =>
          /\ <<last.key, last.field>> \in DOMAIN hsetLog =>
                 reply = hsetLog[<<last.key, last.field>>]
          /\ <<last.key, last.field>> \notin written => reply = RespNull

\* HGET returned the "w" an HSET stored
C3_Witness ==
    /\ last.cmd = "HGET"
    /\ <<last.key, last.field>> \in DOMAIN hsetLog
    /\ reply = BulkString(<<119>>)

(***************************************************************************)
(* C4: HGETALL replies with a flattened array holding exactly one          *)
(* (field, value) pair for every field ever written under the key and no   *)
(* other pair, each field directly followed by its stored value; with no   *)
(* composite entry the reply is the empty array, not Null.                 *)
(***************************************************************************)
C4_HGetAllPairs ==
    last.cmd = "HGETALL" =>
        /\ reply.t = "Array"
        /\ Len(reply.v) = 2 * Cardinality(WrittenUnder(last.key))
        /\ \A f \in WrittenUnder(last.key) :
               \E i \in FieldPositions(Len(reply.v)) :
                   /\ reply.v[i] = BulkString(f)
                   /\ reply.v[i + 1] = StoredValue(last.key, f)
        /\ (last.key \notin DOMAIN hmap => reply = RespArray(<<>>))

\* an unsorted HGETALL that met "b" before "a", the values in place
C4_Witness ==
    /\ last.cmd = "HGETALL"
    /\ ~last.sort
    /\ Len(reply.v) = 4
    /\ reply.v[1] = BulkString(<<98>>)
    /\ reply.v[2] = BulkString(<<119>>)
    /\ reply.v[3] = BulkString(<<97>>)
    /\ reply.v[4] = RespNull

(***************************************************************************)
(* C5: with the sort flag set, the field names of the HGETALL reply are in *)
(* ascending lexicographic byte order and each value sits directly after   *)
(* its own field.                                                          *)
(***************************************************************************)
C5_HGetAllSorted ==
    (last.cmd = "HGETALL" /\ last.sort) =>
        /\ reply.t = "Array"
        /\ \A i, j \in FieldPositions(Len(reply.v)) :
               i < j => LexLess(reply.v[i].v, reply.v[j].v)
        /\ \A i \in FieldPositions(Len(reply.v)) :
               /\ reply.v[i].t = "BulkString"
               /\ reply.v[i].v \in WrittenUnder(last.key)
               /\ reply.v[i + 1] = StoredValue(last.key, reply.v[i].v)

\* a sorted HGETALL of the three fields: "a", "aa", "b"
C5_Witness ==
    /\ last.cmd = "HGETALL"
    /\ last.sort
    /\ Len(reply.v) = 6
    /\ reply.v[1] = BulkString(<<97>>)
    /\ reply.v[3] = BulkString(<<97, 97>>)
    /\ reply.v[5] = BulkString(<<98>>)
    /\ reply.v[6] = BulkString(<<119>>)

(***************************************************************************)
(* C6: SADD replies with the number of listed members that were not under  *)
(* the key before the call, a member listed twice counted once.            *)
(***************************************************************************)
C6_SAddCount ==
    [][last'.cmd = "SADD" =>
          reply' = Integer(Cardinality(Range(last'.fields)
                                       \ WrittenUnder(last'.key)))]_vars

\* SADD(k, [a, b]) on a key that holds "a" or "b": one member is new
C6_Witness ==
    /\ last = SAdd(<<107>>, <<<<97>>, <<98>>>>)
    /\ reply = Integer(1)

(***************************************************************************)
(* C7: SISMEMBER(k, m) replies Integer 1 if and only if an earlier SADD on *)
(* k listed m, and Integer 0 otherwise.                                    *)
(***************************************************************************)
C7_SIsMemberIffSAdded ==
    last.cmd = "SISMEMBER" =>
        reply = Integer(IF <<last.key, last.field>> \in sadded THEN 1 ELSE 0)

(***************************************************************************)
(* C8: GET(k) returns the value of the last SET of k, and Null when no SET *)
(* has written k.                                                          *)
(***************************************************************************)
C8_SetGet ==
    last.cmd = "GET" =>
        reply = IF last.key \in DOMAIN setLog
                THEN setLog[last.key] ELSE RespNull

\* GET returned the "w" a SET stored
C8_Witness ==
    /\ last.cmd = "GET"
    /\ last.key \in DOMAIN setLog
    /\ reply = BulkString(<<119>>)

(***************************************************************************)
(* C9: the string table and the composite table are separate namespaces:   *)
(* a SET of k changes no reply of HGET, HGETALL, HMGET or SISMEMBER on k,  *)
(* and an HSET or SADD on k does not change the reply of GET(k).           *)
(***************************************************************************)
\* the replies the hash and set reads of key may get on the tables m, hm
HashReads(key, m, hm) ==
    <<[f \in Fields |-> Replies(HGet(key, f), m, hm)],
      [s \in BOOLEAN |-> Replies(HGetAll(key, s), m, hm)],
      [fs \in Lists(Fields) |-> Replies(HMGet(key, fs), m, hm)],
      [f \in Fields |-> Replies(SIsMember(key, f), m, hm)]>>

C9_SeparateNamespaces ==
    [][/\ last'.cmd = "SET" =>
              HashReads(last'.key, map', hmap') = HashReads(last'.key, map, hmap)
       /\ last'.cmd \in {"HSET", "SADD"} =>
              Replies(Get(last'.key), map', hmap')
                  = Replies(Get(last'.key), map, hmap)]_vars

\* a SET of a key that holds a hash field: the key is in both tables
C9_Witness ==
    /\ last.cmd = "SET"
    /\ last.key \in DOMAIN map
    /\ last.key \in DOMAIN hmap
    /\ hmap[last.key] # EmptyMap

(***************************************************************************)
(* C10: a request that is malformed for its parser (wrong name, wrong      *)
(* number of tokens, an argument in a textual position that is no bulk     *)
(* string or no UTF-8) yields an error value, and both tables stay as      *)
(* they were.                                                              *)
(***************************************************************************)
\* the number of tokens is the one the command takes
ArityOk(p, req) ==
    CASE p \in {"hget", "sismember"} -> Len(req) = 3
      [] p = "hgetall" -> Len(req) = 2
      [] p = "hset" -> Len(req) = 4
      [] p \in {"hmget", "sadd"} -> Len(req) >= 3

\* the positions of the textual arguments (key, field, member)
TextPositions(p, req) ==
    CASE p \in {"hget", "sismember", "hset"} -> {2, 3}
      [] p = "hgetall" -> {2}
      [] p \in {"hmget", "sadd"} -> 2..Len(req)

WellFormed(p, req) ==
    /\ ArityOk(p, req)
    /\ req[1] = BulkString(NameOf(p))
    /\ \A i \in TextPositions(p, req) :
           req[i].t = "BulkString" /\ Utf8From(req[i].v, 1)

C10_FailedParseFrame ==
    [][(parsed = "pending" /\ parsed' # "pending"
            /\ ~WellFormed(parser, request)) =>
          (parsed' \in ErrorKinds /\ map' = map /\ hmap' = hmap)]_vars

\* an HSET request with the right name and length, its key not UTF-8, has
\* failed, and the store holds nothing
C10_Witness ==
    /\ parser = "hset"
    /\ parsed = "Utf8Error"
    /\ Len(request) = 4
    /\ request[1] = BulkString(NameOf("hset"))
    /\ request[2] = BulkString(<<255>>)
    /\ map = EmptyMap
    /\ hmap = EmptyMap

(***************************************************************************)
(* C11: HMGET and SADD reject their zero-field and zero-member form.  A    *)
(* request of fewer than 3 tokens fails with InvalidArgument; a request    *)
(* whose first token is not exactly the bulk string "hmget" (resp. "sadd") *)
(* fails with InvalidArgument; a request with the right name, a bulk       *)
(* string key and one or more bulk string fields or members parses to the  *)
(* command that carries them in request order.                             *)
(***************************************************************************)
\* the step in which the request in flight is parsed
ParseStep == parsed = "pending" /\ parsed' # "pending"

\* the command an HMGET or SADD request spells out, token by token
Spelled(p, req) ==
    LET names == [i \in 1..(Len(req) - 2) |-> req[i + 2].v]
    IN  IF p = "hmget" THEN HMGet(req[2].v, names) ELSE SAdd(req[2].v, names)

\* the name is right and a key and one or more names follow, all of them
\* bulk strings
ListShaped(p, req) ==
    /\ Len(req) >= 3
    /\ req[1] = BulkString(NameOf(p))
    /\ \A i \in 2..Len(req) : req[i].t = "BulkString"

\* C11 as worded: every list-shaped request parses
C11_ListParsesAnyBulk ==
    [][(ParseStep /\ parser \in {"hmget", "sadd"}) =>
          /\ (Len(request) < 3 => parsed' = "InvalidArgument")
          /\ ((Len(request) >= 1 /\ request[1] # BulkString(NameOf(parser)))
                 => parsed' = "InvalidArgument")
          /\ (ListShaped(parser, request) =>
                 (parsed' = "ok" /\ last' = Spelled(parser, request)))]_vars

\* C11, amended: a list-shaped request parses to the command it spells when
\* its key and its fields or members are UTF-8; the two rejections are as
\* worded
C11_ListParses ==
    [][(ParseStep /\ parser \in {"hmget", "sadd"}) =>
          /\ (Len(request) < 3 => parsed' = "InvalidArgument")
          /\ ((Len(request) >= 1 /\ request[1] # BulkString(NameOf(parser)))
                 => parsed' = "InvalidArgument")
          /\ ((/\ ListShaped(parser, request)
               /\ \A i \in 2..Len(request) : Utf8From(request[i].v, 1)) =>
                 (parsed' = "ok" /\ last' = Spelled(parser, request)))]_vars

\* the request hmget k k f has been parsed and executed: the command holds
\* the fields k, f in that order
C11_Witness ==
    /\ parser = "hmget"
    /\ parsed = "ok"
    /\ request = <<BulkString(NameOf("hmget")), BulkString(<<107>>),
                   BulkString(<<107>>), BulkString(<<102>>)>>
    /\ last = HMGet(<<107>>, <<<<107>>, <<102>>>>)

(***************************************************************************)
(* C12: an HGET request with only a key fails with InvalidArgument; an     *)
(* HSET request whose key or field is no bulk string fails with            *)
(* InvalidArgument; an HSET request whose value is a frame of any type is  *)
(* accepted, and the command carries the value as it came.                 *)
(***************************************************************************)
C12_HGetHSetArguments ==
    [][ParseStep =>
          /\ ((parser = "hget" /\ Len(request) = 2) =>
                 parsed' = "InvalidArgument")
          /\ ((/\ parser = "hset"
               /\ \E i \in {2, 3} :
                      i <= Len(request) /\ request[i].t # "BulkString") =>
                 parsed' = "InvalidArgument")
          /\ ((parser = "hset" /\ Len(request) = 4
                  /\ WellFormed(parser, request)) =>
                 /\ parsed' = "ok"
                 /\ last' = HSet(request[2].v, request[3].v, request[4]))]_vars

\* the request hset k f 1 has been parsed and executed: the integer is the
\* value of the command and the value stored
C12_Witness ==
    /\ parser = "hset"
    /\ parsed = "ok"
    /\ request = <<BulkString(NameOf("hset")), BulkString(<<107>>),
                   BulkString(<<102>>), Integer(1)>>
    /\ last = HSet(<<107>>, <<102>>, Integer(1))
    /\ hget(hmap, <<107>>, <<102>>) = Some(Integer(1))

(***************************************************************************)
(* C20: a request with the name and the number of tokens of its command,   *)
(* whose textual arguments (key, field, members) are all bulk strings,     *)
(* one of them or more not UTF-8, fails with the decoding failure and not  *)
(* with InvalidArgument: for each of the six parsers and for every         *)
(* position of the argument, the key of HMGET and SADD included.           *)
(***************************************************************************)
\* the textual positions of req that hold a bulk string that is not UTF-8
BadUtf8Positions(p, req) ==
    {i \in TextPositions(p, req) :
        req[i].t = "BulkString" /\ ~Utf8From(req[i].v, 1)}

\* name and number of tokens are right and every textual position holds a
\* bulk string
TextShaped(p, req) ==
    /\ ArityOk(p, req)
    /\ req[1] = BulkString(NameOf(p))
    /\ \A i \in TextPositions(p, req) : req[i].t = "BulkString"

C20_InvalidUtf8 ==
    [][(/\ ParseStep
        /\ TextShaped(parser, request)
        /\ BadUtf8Positions(parser, request) # {}) =>
          (parsed' = "Utf8Error" /\ parsed' # "InvalidArgument")]_vars

\* an HMGET request whose fields are UTF-8 and whose key is not has failed
\* with the decoding failure
C20_Witness ==
    /\ parser = "hmget"
    /\ parsed = "Utf8Error"
    /\ TextShaped(parser, request)
    /\ BadUtf8Positions(parser, request) = {2}
    /\ Len(request) = 4

(***************************************************************************)
(* C17: GET, HGET, HGETALL, HMGET and SISMEMBER leave both tables as they  *)
(* were, so that reading a key that is absent creates no string entry and  *)
(* no empty composite entry for it; SET, HSET and SADD change nothing but  *)
(* the entry of the key they name.                                         *)
(***************************************************************************)
ReadCommands == {"GET", "HGET", "HGETALL", "HMGET", "SISMEMBER"}

\* the tables t and u hold the same entries under every key but key
SameBut(t, u, key) ==
    \A k \in ((DOMAIN t) \cup (DOMAIN u)) \ {key} : MapGet(t, k) = MapGet(u, k)

C17_Frame ==
    [][/\ last'.cmd \in ReadCommands => (map' = map /\ hmap' = hmap)
       /\ last'.cmd = "SET" =>
              (hmap' = hmap /\ SameBut(map, map', last'.key))
       /\ last'.cmd \in {"HSET", "SADD"} =>
              (map' = map /\ SameBut(hmap, hmap', last'.key))]_vars

\* an HGETALL of a key that neither table holds, while the other key is in
\* both: the key is still in neither
C17_Witness ==
    /\ last.cmd = "HGETALL"
    /\ last.key \notin DOMAIN map
    /\ last.key \notin DOMAIN hmap
    /\ DOMAIN map # {}
    /\ DOMAIN hmap # {}

(***************************************************************************)
(* C18: no command removes anything.  In every step the keys of the string *)
(* table, the outer keys of the composite table and the fields of each     *)
(* composite entry grow or stay the same.                                  *)
(***************************************************************************)
C18_OnlyGrows ==
    [][/\ DOMAIN map \subseteq DOMAIN map'
       /\ DOMAIN hmap \subseteq DOMAIN hmap'
       /\ \A k \in DOMAIN hmap : DOMAIN hmap[k] \subseteq DOMAIN hmap'[k]]_vars

\* a SADD of no member on a key whose entry holds a field, with both keys
\* in both tables: the field is still there
C18_Witness ==
    /\ last.cmd = "SADD"
    /\ last.fields = <<>>
    /\ DOMAIN map = Keys
    /\ DOMAIN hmap = Keys
    /\ hmap[last.key] # EmptyMap

(***************************************************************************)
(* C19: SADD stores Null under every member it lists, also under a member  *)
(* the entry already holds as a field with a value that is not Null, put   *)
(* there by HSET: that member adds nothing to the count, its value is      *)
(* replaced, and an HGET of it that follows returns Null.                  *)
(***************************************************************************)
\* the fields of the entry the last SADD found
FoundFields == IF found.some THEN DOMAIN found.val ELSE {}

C19_SAddOverwrites ==
    last.cmd = "SADD" =>
        /\ \A m \in Range(last.fields) :
               /\ last.key \in DOMAIN hmap
               /\ m \in DOMAIN hmap[last.key]
               /\ hmap[last.key][m] = RespNull
               /\ Replies(HGet(last.key, m), map, hmap) = {RespNull}
        /\ reply = Integer(Cardinality(Range(last.fields) \ FoundFields))

\* SADD(k, [a]) found the value "w" under a: it replied 0 and a holds Null
C19_Witness ==
    /\ last = SAdd(<<107>>, <<<<97>>>>)
    /\ found.some
    /\ <<97>> \in DOMAIN found.val
    /\ found.val[<<97>>] = BulkString(<<119>>)
    /\ reply = Integer(0)
    /\ hmap[<<107>>][<<97>>] = RespNull

(***************************************************************************)
(* C13: under concurrent execution the reply of HGETALL(k) is a copy taken *)
(* at one instant: its (field, value) pairs are the content k's entry had  *)
(* at one single moment between the start of the command and its reply,    *)
(* also while other threads run HSET or SADD on k.                         *)
(***************************************************************************)
\* the (field, value) pairs of an HGETALL reply
PairsIn(r) == {<<r.v[2 * i - 1].v, r.v[2 * i]>> : i \in 1..(Len(r.v) \div 2)}

C13_HGetAllSnapshot ==
    \A t \in Threads :
        (tcmd[t].cmd = "HGETALL" /\ pc[t] = "done") =>
            \E content \in seen[t] :
                /\ PairsIn(treply[t]) = content
                /\ Len(treply[t].v) = 2 * Cardinality(content)

\* t1 has replied with the two pairs the entry held at the start, and the
\* SADD of t2 has since replaced the value of a
C13_Witness ==
    /\ tcmd["t1"].cmd = "HGETALL"
    /\ tcmd["t2"].cmd = "SADD"
    /\ pc["t1"] = "done"
    /\ pc["t2"] = "done"
    /\ PairsIn(treply["t1"]) = Content(hmap0, <<107>>)
    /\ Cardinality(PairsIn(treply["t1"])) = 2
    /\ Content(hmap, <<107>>) # Content(hmap0, <<107>>)

(***************************************************************************)
(* C14: a GET(k) that runs while other threads run SET(k, .) returns the   *)
(* value k held before those SETs (Null when k was unwritten) or the whole *)
(* value of one of them, never a value no SET wrote; once all the SETs     *)
(* have finished, k holds the value of one of them.                        *)
(***************************************************************************)
\* the threads that run SET on key
Setters(key) == {u \in Threads : tcmd[u].cmd = "SET" /\ tcmd[u].key = key}

\* what GET(key) returned before any thread started
PriorValue(key) == IF key \in DOMAIN map0 THEN map0[key] ELSE RespNull

C14_GetSeesWholeValue ==
    /\ \A t \in Threads :
           (tcmd[t].cmd = "GET" /\ pc[t] = "done") =>
               treply[t] \in {PriorValue(tcmd[t].key)} \cup
                   {tcmd[u].value :
                       u \in {w \in Setters(tcmd[t].key) : pc[w] = "done"}}
    /\ \A k \in OneKey :
           (Setters(k) # {} /\ \A u \in Threads : pc[u] = "done") =>
               (k \in DOMAIN map /\ map[k] \in {tcmd[u].value : u \in Setters(k)})

\* k held "p"; t1 and t2 have set it to Null and to "w", and the GET of t3
\* has returned "w", the value k holds at the end being Null
C14_Witness ==
    /\ map0 = set(EmptyMap, <<107>>, BulkString(<<112>>))
    /\ tcmd["t1"] = Set(<<107>>, RespNull)
    /\ tcmd["t2"] = Set(<<107>>, BulkString(<<119>>))
    /\ tcmd["t3"] = Get(<<107>>)
    /\ \A u \in Threads : pc[u] = "done"
    /\ treply["t3"] = BulkString(<<119>>)
    /\ map[<<107>>] = RespNull

(***************************************************************************)
(* C15: two HSETs that run concurrently on a key k that has no entry, with *)
(* distinct fields f1 and f2, lose no update to the lazy creation of k's   *)
(* inner map: when both have finished, k's entry holds f1 and f2 with the  *)
(* values written, in every interleaving.                                  *)
(***************************************************************************)
\* the fields thread u writes under key
FieldsWritten(u, key) ==
    IF tcmd[u].key # key THEN {}
    ELSE CASE tcmd[u].cmd = "HSET" -> {tcmd[u].field}
           [] tcmd[u].cmd = "SADD" -> Range(tcmd[u].fields)
           [] OTHER -> {}

C15_NoLostHSet ==
    \A t, u \in Threads :
        (/\ t # u
         /\ tcmd[t].cmd = "HSET"
         /\ tcmd[u].cmd = "HSET"
         /\ tcmd[t].key = tcmd[u].key
         /\ tcmd[t].field # tcmd[u].field
         /\ tcmd[t].key \notin DOMAIN hmap0
         /\ \A w \in Threads \ {t, u} :
                FieldsWritten(w, tcmd[t].key)
                    \cap {tcmd[t].field, tcmd[u].field} = {}
         /\ \A w \in Threads : pc[w] = "done") =>
            /\ hget(hmap, tcmd[t].key, tcmd[t].field) = Some(tcmd[t].value)
            /\ hget(hmap, tcmd[u].key, tcmd[u].field) = Some(tcmd[u].value)

\* t1 and t2 have set a and b of the key that had no entry, t3 has read it
\* between the two: it saw one field, and the entry holds both
C15_Witness ==
    /\ hmap0 = EmptyMap
    /\ tcmd["t1"] = HSet(<<107>>, <<97>>, BulkString(<<119>>))
    /\ tcmd["t2"] = HSet(<<107>>, <<98>>, RespNull)
    /\ tcmd["t3"].cmd = "HGETALL"
    /\ \A w \in Threads : pc[w] = "done"
    /\ Len(treply["t3"].v) = 2
    /\ Content(hmap, <<107>>) =
           {<<(<<97>>), BulkString(<<119>>)>>, <<(<<98>>), RespNull>>}

(***************************************************************************)
(* C16: when several SADDs run concurrently on the key k, each member is   *)
(* counted as new by exactly one of them: the sum of their replies is the  *)
(* number of distinct members, over all the calls, that were not under k   *)
(* before, in every interleaving.                                          *)
(***************************************************************************)
RECURSIVE SumOfReplies(_)
SumOfReplies(T) ==
    IF T = {} THEN 0
    ELSE LET t == CHOOSE x \in T : TRUE
         IN  treply[t].v + SumOfReplies(T \ {t})

\* the threads that run SADD on key
SAdders(key) == {u \in Threads : tcmd[u].cmd = "SADD" /\ tcmd[u].key = key}

C16_SAddCountedOnce ==
    \A k \in OneKey :
        (/\ Cardinality(SAdders(k)) >= 2
         /\ \A u \in Threads \ SAdders(k) : FieldsWritten(u, k) = {}
         /\ \A u \in Threads : pc[u] = "done") =>
            SumOfReplies(SAdders(k)) =
                Cardinality(UNION {Range(tcmd[u].fields) : u \in SAdders(k)}
                                \ {p[1] : p \in Content(hmap0, k)})

\* three SADDs on the key that held a: [a, b], [b] and [b, a]; b is the one
\* new member, and the replies add up to 1
C16_Witness ==
    /\ Content(hmap0, <<107>>) = {<<(<<97>>), BulkString(<<119>>)>>}
    /\ tcmd["t1"] = SAdd(<<107>>, <<<<97>>, <<98>>>>)
    /\ tcmd["t2"] = SAdd(<<107>>, <<<<98>>>>)
    /\ tcmd["t3"] = SAdd(<<107>>, <<<<98>>, <<97>>>>)
    /\ \A u \in Threads : pc[u] = "done"
    /\ treply["t2"] = Integer(1)
    /\ SumOfReplies(Threads) = 1

====
